---- MODULE Spec2Model ----
(***************************************************************************)
(* Model of WWT_cpk.py: the process-capability (Cpk) dashboard.            *)
(*                                                                         *)
(* Numbers.  Samples, limits and means are counted in hundredths of a      *)
(* mg/L (100 stands for 1.0).  Arithmetic is exact: a mean is a            *)
(* fraction num/den, a standard deviation is the square root of a          *)
(* fraction, sqrt(sqnum/sqden), and a capability index is a signed square  *)
(* root, sgn * sqrt(sqnum/sqden).  Every number carries a nan flag, since  *)
(* pandas yields NaN for the mean of an empty series and for the sample    *)
(* standard deviation of fewer than two samples.  Floating-point rounding  *)
(* error of the float64 arithmetic is not modelled.                        *)
(***************************************************************************)
EXTENDS Integers, Sequences, FiniteSets, TLC

VARIABLES df, limits_dict, selected_params, pc, idx,
          summary_data, charts, summary_df, st_error, call, ret

vars == <<df, limits_dict, selected_params, pc, idx,
          summary_data, charts, summary_df, st_error, call, ret>>

appVars == <<df, limits_dict, selected_params, pc, idx,
             summary_data, charts, summary_df, st_error>>

-----------------------------------------------------------------------------
(* Bounds of the model *)

\* longest uploaded column (cells, missing ones included)
MaxLen == 3
\* longest series handed to calculate_cpk when it is exercised on its own
MaxCalcLen == 3

-----------------------------------------------------------------------------
(* Exact arithmetic *)

\* a missing cell of a column (NaN in the uploaded table)
NA == -1

Abs(x) == IF x < 0 THEN -x ELSE x

Sign(x) == IF x < 0 THEN -1 ELSE IF x > 0 THEN 1 ELSE 0

RECURSIVE GCD(_, _)
GCD(a, b) == IF b = 0 THEN a ELSE GCD(b, a % b)

RECURSIVE Isqrt(_)
Isqrt(n) ==
    IF n < 2 THEN n
    ELSE LET s == 2 * Isqrt(n \div 4)
         IN  IF (s + 1) * (s + 1) <= n THEN s + 1 ELSE s

RECURSIVE Sum(_)
Sum(s) == IF s = <<>> THEN 0 ELSE Head(s) + Sum(Tail(s))

\* sum over the series of (n*x - S)^2, i.e. n^2 times the sum of squared
\* deviations from the mean S/n
RECURSIVE SumSqDev(_, _, _)
SumSqDev(s, n, S) ==
    IF s = <<>> THEN 0
    ELSE (n * Head(s) - S) * (n * Head(s) - S) + SumSqDev(Tail(s), n, S)

NaN == [nan |-> TRUE, num |-> 0, den |-> 1]

Rat(p, q) ==
    LET g == GCD(Abs(p), q)
    IN  [nan |-> FALSE, num |-> p \div g, den |-> q \div g]

NaNSurd == [nan |-> TRUE, sgn |-> 0, sqnum |-> 0, sqden |-> 1]

\* sgn * sqrt(p/q), p >= 0, q > 0
Surd(sg, p, q) ==
    LET g == GCD(p, q)
    IN  [nan |-> FALSE, sgn |-> IF p = 0 THEN 0 ELSE sg,
         sqnum |-> p \div g, sqden |-> q \div g]

\* round half to even of p/q, q > 0
RoundHalfEven(p, q) ==
    LET f == p \div q
        r == p % q
    IN  IF 2 * r < q THEN f
        ELSE IF 2 * r > q THEN f + 1
        ELSE IF f % 2 = 0 THEN f ELSE f + 1

\* floor(m * m * p / q) by long division, keeping the intermediate
\* products small
ScaleFloor(m, p, q) ==
    LET d1 == (m * p) \div q
        r1 == (m * p) % q
    IN  m * d1 + (m * r1) \div q

\* m * m * p / q is a whole number
ScaleExact(m, p, q) == (m * ((m * p) % q)) % q = 0

\* x < a/b for a signed square root x and a positive fraction a/b;
\* as in IEEE arithmetic, every comparison with NaN is false
SurdLt(x, a, b) ==
    /\ ~x.nan
    /\ \/ x.sgn <= 0
       \/ ScaleFloor(b, x.sqnum, x.sqden) < a * a

\* round half to even of m * sqrt(p/q)
RoundSqrt(m, p, q) ==
    LET N == ScaleFloor(2 * m, p, q)
        r == Isqrt(N)
        k == (r + 1) \div 2
        tie == r % 2 = 1 /\ r * r = N /\ ScaleExact(2 * m, p, q)
    IN  IF tie /\ k % 2 = 1 THEN k - 1 ELSE k

-----------------------------------------------------------------------------
(* numpy / pandas / builtins *)

\* Series.dropna(): the present values, in order
RECURSIVE dropna(_)
dropna(s) ==
    IF s = <<>> THEN <<>>
    ELSE IF Head(s) = NA THEN dropna(Tail(s))
    ELSE <<Head(s)>> \o dropna(Tail(s))

\* np.mean(data): NaN for an empty series
np_mean(data) ==
    IF Len(data) = 0 THEN NaN ELSE Rat(Sum(data), Len(data))

\* the population standard deviation: the ddof is ignored
np_std_population(data, ddof) ==
    LET n == Len(data)
    IN  IF n - ddof <= 0 THEN NaNSurd
        ELSE Surd(1, SumSqDev(data, n, Sum(data)), n * n * n)

\* np.std(data, ddof): sqrt(sum((x - mean)^2) / (n - ddof)); NaN when
\* n - ddof <= 0
np_std(data, ddof) ==
    LET n == Len(data)
    IN  IF n - ddof <= 0 THEN NaNSurd
        ELSE Surd(1, SumSqDev(data, n, Sum(data)), n * n * (n - ddof))

\* round(x, 3) of a fraction of hundredths: the value in thousandths
round3(x) ==
    IF x.nan THEN [nan |-> TRUE, val |-> 0]
    ELSE [nan |-> FALSE, val |-> RoundHalfEven(10 * x.num, x.den)]

\* round(x, 3) of a square root in hundredths: the value in thousandths
round3s(x) ==
    IF x.nan THEN [nan |-> TRUE, val |-> 0]
    ELSE [nan |-> FALSE, val |-> x.sgn * RoundSqrt(10, x.sqnum, x.sqden)]

\* round(x, 2) of a dimensionless signed square root: the value in
\* hundredths
round2s(x) ==
    IF x.nan THEN [nan |-> TRUE, val |-> 0]
    ELSE [nan |-> FALSE, val |-> x.sgn * RoundSqrt(100, x.sqnum, x.sqden)]

\* dict.get(key, default)
get(d, key, default) == IF key \in DOMAIN d THEN d[key] ELSE default

-----------------------------------------------------------------------------
(* The program *)

\* the sidebar's default limits (Standard B), in hundredths of a mg/L
DefaultLimits ==
    [p \in {"Lead (Pb)", "Manganese (Mn)", "Boron (B)", "COD"} |->
        CASE p = "Lead (Pb)" -> 50
          [] p = "Manganese (Mn)" -> 100
          [] p = "Boron (B)" -> 400
          [] OTHER -> 20000]

\* the default of limits_dict.get(param, 1.0)
FallbackLimit == 100

\* mu + 3*sigma, kept as a fraction plus a square root
Ucl(mu, sigma) ==
    IF mu.nan \/ sigma.nan
    THEN [nan |-> TRUE, num |-> 0, den |-> 1, sqnum |-> 0, sqden |-> 1]
    ELSE [nan |-> FALSE, num |-> mu.num, den |-> mu.den,
          sqnum |-> 9 * sigma.sqnum, sqden |-> sigma.sqden]

\* the operands of the subtraction swapped: (mu - usl) / (3 * sigma)
CpuSwapped(usl, mu, sigma) ==
    IF mu.nan \/ sigma.nan THEN NaNSurd
    ELSE LET d == mu.num - usl * mu.den
         IN  Surd(Sign(d), d * d * sigma.sqden,
                  9 * mu.den * mu.den * sigma.sqnum)

\* (usl - mu) / (3 * sigma), sigma # 0
Cpu(usl, mu, sigma) ==
    IF mu.nan \/ sigma.nan THEN NaNSurd
    ELSE LET d == usl * mu.den - mu.num
         IN  Surd(Sign(d), d * d * sigma.sqden,
                  9 * mu.den * mu.den * sigma.sqnum)

\* calculate_cpk(data, usl): the bare float 0.0 when sigma == 0, else the
\* tuple (cpu, mu, sigma, mu + 3*sigma)
calculate_cpk(data, usl) ==
    LET mu == np_mean(data)
        sigma == np_std(data, 1)
    IN  IF ~sigma.nan /\ sigma.sqnum = 0
        THEN [kind |-> "float", value |-> Surd(0, 0, 1)]
        ELSE [kind |-> "tuple",
              cpu |-> Cpu(usl, mu, sigma),
              mu |-> mu,
              sigma |-> sigma,
              ucl |-> Ucl(mu, sigma)]

\* x <= a/b for a signed square root x and a positive fraction a/b
SurdLeq(x, a, b) ==
    /\ ~x.nan
    /\ \/ x.sgn <= 0
       \/ ScaleFloor(b, x.sqnum, x.sqden) < a * a
       \/ (ScaleFloor(b, x.sqnum, x.sqden) = a * a
             /\ ScaleExact(b, x.sqnum, x.sqden))

\* the thresholds taken with <= in place of <: 1.0 falls in NOT CAPABLE
\* and 1.33 in MARGINAL
StatusClosed(cpk) ==
    IF SurdLeq(cpk, 100, 100) THEN "NOT CAPABLE"
    ELSE IF SurdLeq(cpk, 133, 100) THEN "MARGINAL"
    ELSE "EXCELLENT"

\* the status taken from the index as displayed, round(cpk, 2)
StatusOfRounded(cpk) ==
    LET shown == round2s(cpk)
    IN  IF ~shown.nan /\ shown.val < 100 THEN "NOT CAPABLE"
        ELSE IF ~shown.nan /\ shown.val < 133 THEN "MARGINAL"
        ELSE "EXCELLENT"

\* the if / elif / else on cpk
Status(cpk) ==
    IF SurdLt(cpk, 100, 100) THEN "NOT CAPABLE"
    ELSE IF SurdLt(cpk, 133, 100) THEN "MARGINAL"
    ELSE "EXCELLENT"

\* the row appended to summary_data
SummaryRow(param, usl, mu, sigma, cpk, status) ==
    [Parameter |-> param, StdBLimit |-> usl, Mean |-> round3(mu),
     StdDev |-> round3s(sigma), Cpk |-> round2s(cpk), Status |-> status]

\* the chart drawn from the mean as rounded for the report
ChartSeriesRounded(param, values, usl, ucl, mu) ==
    [param |-> param, values |-> values, usl |-> usl, ucl |-> ucl,
     mu |-> IF mu.nan THEN mu ELSE Rat(round3(mu).val, 10)]

\* what the control chart of one parameter is drawn from
ChartSeries(param, values, usl, ucl, mu) ==
    [param |-> param, values |-> values, usl |-> usl, ucl |-> ucl, mu |-> mu]

-----------------------------------------------------------------------------
(* One run of the script over an uploaded table *)

\* the numeric columns of the uploaded table
Cols == {"Manganese (Mn)", "Zinc (Zn)"}

\* a cell of a numeric column: a sample in hundredths of a mg/L, or missing
Cells == {11, 45, NA}

\* the sidebar's limits: the defaults, or the manganese limit set to 0.5
\* or to 4.0
LimitChoices ==
    {[DefaultLimits EXCEPT !["Manganese (Mn)"] = l] : l \in {100, 50, 400}}

\* what st.multiselect can return: distinct columns, in the order chosen
Selections ==
    {<<>>} \cup {<<c>> : c \in Cols}
           \cup {<<c, d>> : <<c, d>> \in {x \in Cols \X Cols : x[1] # x[2]}}

NoCall == [op |-> "none"]

AppInit ==
    /\ \E rows \in 0..MaxLen : df \in [Cols -> [1..rows -> Cells]]
    /\ limits_dict \in LimitChoices
    /\ selected_params \in Selections
    /\ pc = "select"
    /\ idx = 1
    /\ summary_data = <<>>
    /\ charts = <<>>
    /\ summary_df = <<>>
    /\ st_error = "none"

Init ==
    /\ AppInit
    /\ call = NoCall
    /\ ret = NoCall

\* if selected_params: tabs are created and summary_data = []
SelectParams ==
    /\ pc = "select"
    /\ pc' = IF selected_params # <<>> THEN "loop" ELSE "done"
    /\ summary_data' = <<>>
    /\ UNCHANGED <<df, limits_dict, selected_params, idx, charts,
                   summary_df, st_error, call, ret>>

\* one iteration of "for param in selected_params"; unpacking the bare
\* float of the zero-variance branch raises TypeError, which the enclosing
\* except turns into st.error and the end of the run
ProcessParam ==
    /\ pc = "loop"
    /\ idx <= Len(selected_params)
    /\ LET param == selected_params[idx]
           usl == get(limits_dict, param, FallbackLimit)
           values == dropna(df[param])
           r == calculate_cpk(values, usl)
       IN  IF r.kind = "float"
           THEN /\ pc' = "error"
                /\ st_error' = "Error reading file: TypeError"
                /\ UNCHANGED <<idx, summary_data, charts>>
           ELSE /\ summary_data' = Append(summary_data,
                        SummaryRow(param, usl, r.mu, r.sigma, r.cpu,
                                   Status(r.cpu)))
                /\ charts' = Append(charts,
                        ChartSeries(param, values, usl, r.ucl, r.mu))
                /\ idx' = idx + 1
                /\ UNCHANGED <<pc, st_error>>
    /\ UNCHANGED <<df, limits_dict, selected_params, summary_df, call, ret>>

\* after the loop: the summary table is built from summary_data and shown
DisplaySummary ==
    /\ pc = "loop"
    /\ idx > Len(selected_params)
    /\ summary_df' = summary_data
    /\ pc' = "done"
    /\ UNCHANGED <<df, limits_dict, selected_params, idx, summary_data,
                   charts, st_error, call, ret>>

Next ==
    \/ SelectParams
    \/ ProcessParam
    \/ DisplaySummary

Spec == Init /\ [][Next]_vars

-----------------------------------------------------------------------------
(* calculate_cpk and the status classification exercised on their own *)

\* the demo column 'Lead (Pb)', in hundredths of a mg/L
DemoLead == <<12, 15, 11, 20, 13, 45, 18, 12, 10, 15>>

RECURSIVE SeqsUpTo(_, _)
SeqsUpTo(S, n) ==
    IF n = 0 THEN {<<>>}
    ELSE LET shorter == SeqsUpTo(S, n - 1)
         IN  shorter \cup {Append(q, x) : q \in shorter, x \in S}

\* cleaned series handed to calculate_cpk
CalcSeries == SeqsUpTo({0, 2, 4}, MaxCalcLen)

\* upper limits handed to calculate_cpk
CalcLimits == {1, 3, 8}

\* capability indices handed to the classification, in thousandths
CalcIndices == -500..2000

\* a pair of calls of calculate_cpk, or one classification
Calls ==
    {[op |-> "calculate_cpk", a |-> x, b |-> y, milli |-> 0] :
        x \in [data : CalcSeries, usl : CalcLimits]
                  \cup {[data |-> DemoLead, usl |-> DefaultLimits["Lead (Pb)"]]},
        y \in [data : CalcSeries, usl : CalcLimits]}
    \cup {[op |-> "status", a |-> e, b |-> e, milli |-> k] :
             e \in {[data |-> <<>>, usl |-> 1]}, k \in CalcIndices}

InitCalc ==
    /\ df = [c \in Cols |-> <<>>]
    /\ limits_dict = DefaultLimits
    /\ selected_params = <<>>
    /\ pc = "done"
    /\ idx = 1
    /\ summary_data = <<>>
    /\ charts = <<>>
    /\ summary_df = <<>>
    /\ st_error = "none"
    /\ call \in Calls
    /\ ret = NoCall

ApplyCalculate ==
    /\ call.op = "calculate_cpk"
    /\ ret = NoCall
    /\ ret' = [op |-> "calculate_cpk",
               a |-> calculate_cpk(call.a.data, call.a.usl),
               b |-> calculate_cpk(call.b.data, call.b.usl)]
    /\ UNCHANGED <<appVars, call>>

ApplyStatus ==
    /\ call.op = "status"
    /\ ret = NoCall
    /\ ret' = [op |-> "status",
               status |-> Status(Surd(Sign(call.milli),
                                      call.milli * call.milli, 1000000))]
    /\ UNCHANGED <<appVars, call>>

NextCalc ==
    \/ ApplyCalculate
    \/ ApplyStatus

SpecCalc == InitCalc /\ [][NextCalc]_vars

-----------------------------------------------------------------------------
(* Properties of a run *)

Finished == pc \in {"done", "error"}

\* the loop has dealt with the i-th selected parameter
Processed(i) == i < idx \/ (pc = "error" /\ i = idx)

ValuesOf(i) == dropna(df[selected_params[i]])

LimitOf(i) == get(limits_dict, selected_params[i], FallbackLimit)

AllEqual(v) == \A j, k \in 1..Len(v) : v[j] = v[k]

\* the row the loop body builds for one parameter under a limits mapping
RowFor(limits, param, values) ==
    LET usl == get(limits, param, FallbackLimit)
        r == calculate_cpk(values, usl)
    IN  SummaryRow(param, usl, r.mu, r.sigma, r.cpu, Status(r.cpu))

\* C1: every processed parameter whose cleaned series has at least two
\* samples, all equal, has a summary row with standard deviation 0,
\* capability index 0 and status NOT CAPABLE, and the run has not faulted.
C1_ZeroVarianceRow ==
    \A i \in 1..Len(selected_params) :
        (Processed(i) /\ Len(ValuesOf(i)) >= 2 /\ AllEqual(ValuesOf(i)))
        => /\ pc # "error"
           /\ i <= Len(summary_data)
           /\ summary_data[i].StdDev = [nan |-> FALSE, val |-> 0]
           /\ summary_data[i].Cpk = [nan |-> FALSE, val |-> 0]
           /\ summary_data[i].Status = "NOT CAPABLE"

\* C2: a processed parameter whose cleaned series has fewer than two
\* samples ends the calculation with an error shown to the caller and gets
\* no summary row.
C2_InsufficientDataRaises ==
    \A i \in 1..Len(selected_params) :
        (Processed(i) /\ Len(ValuesOf(i)) < 2)
        => /\ st_error # "none"
           /\ Len(summary_data) < i

\* C3: when the run is over, every selected parameter whose own processing
\* does not fail (at least two samples, not all equal) has its row in the
\* displayed report, whatever happened to the other parameters.
C3_OtherParamsComplete ==
    Finished =>
        \A i \in 1..Len(selected_params) :
            (Len(ValuesOf(i)) >= 2 /\ ~AllEqual(ValuesOf(i)))
            => \E j \in 1..Len(summary_df) :
                   summary_df[j].Parameter = selected_params[i]

\* C5: the row of a parameter absent from limits_dict uses the fallback
\* limit 1.0 and differs from the row the same data gets when the name is
\* configured with the limit 1.0.
C5_FallbackMarked ==
    \A i \in 1..Len(summary_data) :
        selected_params[i] \notin DOMAIN limits_dict
        => /\ summary_data[i].StdBLimit = FallbackLimit
           /\ summary_data[i] #
                  RowFor((selected_params[i] :> FallbackLimit) @@ limits_dict,
                         selected_params[i], ValuesOf(i))

\* C6: when the run is over, the displayed report has one row per selected
\* parameter and row i is the row of the i-th selected parameter.
C6_OneRowPerSelected ==
    Finished =>
        /\ Len(summary_df) = Len(selected_params)
        /\ \A i \in 1..Len(selected_params) :
               summary_df[i].Parameter = selected_params[i]

\* n^2 * (n - 1) for a series of n samples: the denominator of its sample
\* variance once the deviations are scaled by n
VarDen(v) == Len(v) * Len(v) * (Len(v) - 1)

\* C7: the chart series of every processed parameter holds the cleaned
\* samples, the limit, the exact mean and the exact mean + 3 * standard
\* deviation, whatever the report's rounding (3 decimals for the mean and
\* the standard deviation, 2 for the index) did to the row.
C7_ChartFullPrecision ==
    /\ Len(charts) = Len(summary_data)
    /\ \A i \in 1..Len(charts) :
          LET v == ValuesOf(i)
              c == charts[i]
          IN  /\ c.param = selected_params[i]
              /\ c.values = v
              /\ c.usl = LimitOf(i)
              /\ c.mu.nan = (Len(v) = 0)
              /\ ~c.mu.nan => c.mu.num * Len(v) = Sum(v) * c.mu.den
              /\ c.ucl.nan = (Len(v) < 2)
              /\ ~c.ucl.nan =>
                    /\ c.ucl.num * Len(v) = Sum(v) * c.ucl.den
                    /\ c.ucl.sqnum * VarDen(v) =
                          9 * SumSqDev(v, Len(v), Sum(v)) * c.ucl.sqden

\* a parameter whose mean and standard deviation are both changed by the
\* rounding of its row, while its chart keeps them exact
C7_Witness ==
    \E i \in 1..Len(charts) :
        /\ ~charts[i].ucl.nan
        /\ summary_data[i].Mean.val * charts[i].mu.den # 10 * charts[i].mu.num
        /\ summary_data[i].StdDev.val * summary_data[i].StdDev.val
              * charts[i].ucl.sqden # 100 * (charts[i].ucl.sqnum \div 9)
        /\ charts[i].mu.num * Len(ValuesOf(i)) = Sum(ValuesOf(i)) * charts[i].mu.den

\* the tier of a displayed index (hundredths), by the thresholds 1.0 and
\* 1.33 and the code's comparisons
TierOfDisplayed(shown) ==
    IF ~shown.nan /\ shown.val < 100 THEN "NOT CAPABLE"
    ELSE IF ~shown.nan /\ shown.val < 133 THEN "MARGINAL"
    ELSE "EXCELLENT"

\* the unrounded index of the i-th selected parameter
CpkOf(i) == calculate_cpk(ValuesOf(i), LimitOf(i)).cpu

\* a / b <= x < c / d for a number x, 0 < a / b
InBand(x, a, b, c, d) == ~x.nan /\ ~SurdLt(x, a, b) /\ SurdLt(x, c, d)

\* C10 as claimed: in every summary row the status is the tier of the
\* displayed (rounded) index.
C10_StatusMatchesDisplayed ==
    \A i \in 1..Len(summary_data) :
        summary_data[i].Status = TierOfDisplayed(summary_data[i].Cpk)

\* C10 as amended: in every summary row the status is the tier of the
\* unrounded index, and it is the tier of the displayed index unless the
\* unrounded index lies in [0.995, 1.0) or in [1.325, 1.33).
C10_StatusFromUnrounded ==
    \A i \in 1..Len(summary_data) :
        LET x == CpkOf(i)
            row == summary_data[i]
        IN  /\ row.Status = "NOT CAPABLE"
                  <=> (~x.nan /\ (x.sgn <= 0 \/ x.sqnum < x.sqden))
            /\ row.Status = "EXCELLENT"
                  <=> (x.nan \/ (x.sgn > 0
                                  /\ ScaleFloor(100, x.sqnum, x.sqden) >= 17689))
            /\ row.Status \in {"NOT CAPABLE", "MARGINAL", "EXCELLENT"}
            /\ (~InBand(x, 199, 200, 1, 1) /\ ~InBand(x, 53, 40, 133, 100))
                  => row.Status = TierOfDisplayed(row.Cpk)

\* a row shown with index 1.0 and status NOT CAPABLE: the unrounded index
\* is in [0.995, 1.0)
C10_Witness ==
    \E i \in 1..Len(summary_data) :
        /\ InBand(CpkOf(i), 199, 200, 1, 1)
        /\ summary_data[i].Cpk = [nan |-> FALSE, val |-> 100]
        /\ summary_data[i].Status = "NOT CAPABLE"

-----------------------------------------------------------------------------
(* Properties of calculate_cpk and of the classification *)

C4_WitnessExcellent ==
    ret.op = "status" /\ call.milli = 1330 /\ ret.status = "EXCELLENT"

\* p1 / q1 = p2 / q2
FracEq(p1, q1, p2, q2) ==
    LET g1 == GCD(p1, q1)
        g2 == GCD(p2, q2)
    IN  p1 \div g1 = p2 \div g2 /\ q1 \div g1 = q2 \div g2

\* p1 / q1 <= p2 / q2 for fractions >= 0, by continued fractions (no
\* product of the operands is formed)
RECURSIVE FracLe(_, _, _, _)
FracLe(p1, q1, p2, q2) ==
    IF p1 \div q1 # p2 \div q2 THEN p1 \div q1 < p2 \div q2
    ELSE IF p1 % q1 = 0 THEN TRUE
    ELSE IF p2 % q2 = 0 THEN FALSE
    ELSE FracLe(q2, p2 % q2, q1, p1 % q1)

\* x <= y for signed square roots
SurdLe(x, y) ==
    IF x.sgn # y.sgn THEN x.sgn < y.sgn
    ELSE IF x.sgn = 0 THEN TRUE
    ELSE IF x.sgn > 0 THEN FracLe(x.sqnum, x.sqden, y.sqnum, y.sqden)
    ELSE FracLe(y.sqnum, y.sqden, x.sqnum, x.sqden)

\* what C8 says of one call of calculate_cpk
CalcAsSpecified(data, usl, out) ==
    LET n == Len(data)
        S == Sum(data)
        Q == SumSqDev(data, n, S)
        d == usl * n - S
    IN  (n >= 2 /\ ~AllEqual(data)) =>
            /\ out.kind = "tuple"
            /\ ~out.mu.nan /\ ~out.sigma.nan /\ ~out.cpu.nan /\ ~out.ucl.nan
            /\ FracEq(Abs(out.mu.num), out.mu.den, Abs(S), n)
            /\ Sign(out.mu.num) = Sign(S)
            /\ out.sigma.sgn = 1
            /\ FracEq(out.sigma.sqnum, out.sigma.sqden, Q, n * n * (n - 1))
            /\ out.cpu.sgn = Sign(d)
            /\ FracEq(out.cpu.sqnum, out.cpu.sqden, d * d * (n - 1), 9 * Q)
            /\ out.ucl.num = out.mu.num /\ out.ucl.den = out.mu.den
            /\ FracEq(out.ucl.sqnum, out.ucl.sqden, 9 * Q, n * n * (n - 1))

\* C8: for at least two samples with non-zero standard deviation
\* calculate_cpk returns the mean, the sample standard deviation (n - 1),
\* (limit - mean) / (3 * standard deviation) and mean + 3 * standard
\* deviation; the demo lead series with limit 0.5 has mean 0.171 and an
\* index in [1.0, 1.33), status MARGINAL.
C8_CalculateCpk ==
    ret.op = "calculate_cpk" =>
        /\ CalcAsSpecified(call.a.data, call.a.usl, ret.a)
        /\ CalcAsSpecified(call.b.data, call.b.usl, ret.b)
        /\ (call.a.data = DemoLead /\ call.a.usl = 50) =>
              /\ ret.a.mu = [nan |-> FALSE, num |-> 171, den |-> 10]
              /\ ret.a.cpu.sgn = 1
              /\ ret.a.cpu.sqnum >= ret.a.cpu.sqden
              /\ ScaleFloor(100, ret.a.cpu.sqnum, ret.a.cpu.sqden) < 17689
              /\ round2s(ret.a.cpu).val = 107
              /\ round3s(ret.a.sigma).val = 103
              /\ Status(ret.a.cpu) = "MARGINAL"

\* calculate_cpk has returned for the demo lead series and the limit 0.5
C8_Witness ==
    /\ ret.op = "calculate_cpk"
    /\ call.a.data = DemoLead /\ call.a.usl = 50
    /\ ret.a.kind = "tuple"

\* the capability index a call of calculate_cpk returned
IndexOf(out) == IF out.kind = "float" THEN out.value ELSE out.cpu

\* two calls on series of at least two samples
PairDefined ==
    ret.op = "calculate_cpk" /\ Len(call.a.data) >= 2 /\ Len(call.b.data) >= 2

SameMean == np_mean(call.a.data) = np_mean(call.b.data)

SigmaLe == SurdLe(np_std(call.a.data, 1), np_std(call.b.data, 1))

\* non-decreasing in the limit for a fixed series (fixed mean and
\* standard deviation)
LimitMonotone ==
    (PairDefined /\ call.a.data = call.b.data /\ call.a.usl <= call.b.usl)
    => SurdLe(IndexOf(ret.a), IndexOf(ret.b))

\* C9 as claimed: the index is non-decreasing in the limit for fixed mean
\* and standard deviation, and non-increasing in the standard deviation
\* for fixed mean and limit, for every standard deviation >= 0 and every
\* mean.
C9_Monotone ==
    /\ LimitMonotone
    /\ (PairDefined /\ SameMean /\ call.a.usl = call.b.usl /\ SigmaLe)
       => SurdLe(IndexOf(ret.b), IndexOf(ret.a))

\* C9 as amended: non-decreasing in the limit for fixed mean and standard
\* deviation (every standard deviation >= 0); non-increasing in the
\* standard deviation for fixed mean and limit when the smaller standard
\* deviation is above zero and the mean is not above the limit.
C9_MonotoneWhereDefined ==
    /\ LimitMonotone
    /\ (PairDefined /\ SameMean /\ call.a.usl = call.b.usl /\ SigmaLe
          /\ ~AllEqual(call.a.data)
          /\ Sum(call.a.data) <= call.a.usl * Len(call.a.data))
       => SurdLe(IndexOf(ret.b), IndexOf(ret.a))

\* two series of equal mean below the limit, the second of strictly larger
\* standard deviation and strictly smaller index, and a series whose index
\* strictly grows with the limit
C9_Witness ==
    /\ PairDefined /\ SameMean /\ call.a.usl = call.b.usl /\ SigmaLe
    /\ ~AllEqual(call.a.data)
    /\ Sum(call.a.data) < call.a.usl * Len(call.a.data)
    /\ ~SurdLe(IndexOf(ret.a), IndexOf(ret.b))

====
